---- MODULE Spec2Model ----
(***************************************************************************)
(* Model of ensto-bt-thermostat-reader.js: the noble event handlers        *)
(* ("stateChange", "discover", the peripheral's "disconnect"), the async   *)
(* function connect() cut at its awaits, the pairing file store and the    *)
(* decoding of the stats packet.                                           *)
(*                                                                         *)
(* JavaScript runs every continuation to its next await without            *)
(* interleaving, so one action is one such run: the completion of the      *)
(* awaited transport call (ok, or rejected) followed by all the code up to *)
(* the next await or to process.exit.  A rejected await and an exception   *)
(* thrown in an async function both reach dieOnError (exit code 1).        *)
(***************************************************************************)
EXTENDS Integers, Sequences, FiniteSets, TLC

VARIABLES
    mode,                 \* "SCAN" or "READ", "undefined" until set (line 93)
    targetDeviceAddress,  \* line 94
    keepReading,          \* line 96
    scanning,             \* noble is scanning (startScanning / stopScanning)
    exit,                 \* "starting" (the argument loop has not run),
                          \* "running", "exit0" (process.exit(0)), "exit1"
    stderr,               \* what ended the process: the error dieOnError printed
    argv,                 \* process.argv.slice(2) (line 101)
    store,                \* the pairing files: filename -> content
    writes,               \* history: the calls of writePairingInfo, in order
    sessions,             \* the invocations of the read branch of "discover"
    out,                  \* stdout: the JSON records printed by console.log
    found,                \* the "Found ..." lines logged in SCAN mode
    connected,            \* the peripheral has an open connection
    disconnected          \* the "disconnect" listener has run

vars == <<argv, mode, targetDeviceAddress, keepReading, scanning, exit, stderr,
          store, writes, sessions, out, found, connected, disconnected>>

-----------------------------------------------------------------------------
\* Bounds of the model.

\* invocations of the read branch that may be alive together
MaxSessions == 2
\* stats reads one invocation may issue
MaxReads == 2

-----------------------------------------------------------------------------
\* Values.

\* the value of a Buffer index past the end (undefined), outside 0..255
Undefined == -1

\* a property that is undefined, and one that holds a value
Absent == [defined |-> FALSE]
Some(v) == [defined |-> TRUE, value |-> v]

\* first byte of the stats packet that carries the temperatures (line 234)
StatsKind == 128
\* ascii "1" (line 157)
PairingChar == 49
\* index of the pairing flag in manufacturerData (line 157)
PairingIndex == 10
\* the reset code is the first four bytes (line 201)
ResetCodeLen == 4

Addr1 == <<"9", "0", ":", "f", "d", ":", "9", "f", ":", "1", "2", ":",
           "3", "4", ":", "5", "6">>
Addr2 == <<"9", "0", ":", "0", "1", ":", "9", "f", ":", "1", "2", ":",
           "3", "4", ":", "5", "6">>
Addresses == {Addr1, Addr2}

\* "ECO16BT " (line 152)
FamilyPrefix == <<"E", "C", "O", "1", "6", "B", "T", " ">>
NameLiving == FamilyPrefix \o <<"L">>
NameNoSpace == <<"E", "C", "O", "1", "6", "B", "T">>
NameOther == <<"T", "V">>
LocalNames == {Some(NameLiving), Some(NameNoSpace), Some(NameOther), Absent}

\* company id, then "ECO16BT;1;0;0;" (pairing) or "ECO16BT;0;0;0;"
MfgPairing == <<18, 52, 69, 67, 79, 49, 54, 66, 84, 59, 49, 59, 48, 59, 48, 59>>
MfgNormal == <<18, 52, 69, 67, 79, 49, 54, 66, 84, 59, 48, 59, 48, 59, 48, 59>>
MfgShort == <<18, 52, 69, 67, 79, 49, 54, 66, 84, 59>>
MfgDatas == {Some(MfgPairing), Some(MfgNormal), Some(MfgShort), Absent}

Advertisements ==
    [address : Addresses, localName : LocalNames, manufacturerData : MfgDatas]

\* the characteristics a discovery may return
AllChars == {"reset", "stats", "dname"}
CharSets == {AllChars} \cup {AllChars \ {c} : c \in AllChars}

\* answers of the device to a read of the reset-code characteristic
ResetMsgs == {<<1, 2, 3, 4, 5, 6>>, <<7, 8>>}
\* answers of the device to a read of the device-name characteristic
DnameMsgs == {<<9, 76, 105, 118, 0, 0>>, <<0>>}

PacketExample == <<128, 195, 0, 0, 0, 205, 0, 0, 0, 1>>
\* answers of the device to a read of the stats characteristic
SessionPackets ==
    {PacketExample, <<128, 195>>, <<0, 195, 0, 0, 0, 205, 0, 0, 0, 1>>, <<>>}

\* longest stats packet of the decoder's specification
MaxPacketLen == 10

\* a packet of n bytes: kind, target low and high, room low and high, relay
\* byte, and a filler in the bytes the decoder does not read
Packet(kind, tl, th, rl, rh, relay, filler, n) ==
    [j \in 1..n |->
        CASE j = 1 -> kind
          [] j = 2 -> tl
          [] j = 3 -> th
          [] j = 5 -> rl
          [] j = 6 -> rh
          [] j = 9 -> relay
          [] OTHER -> filler]

DecoderPackets ==
    {Packet(kind, tl, th, rl, rh, relay, filler, n) :
        kind \in {128, 0}, tl \in {0, 195, 255}, th \in {0, 1, 255},
        rl \in {0, 205, 255}, rh \in {0, 1, 255}, relay \in {0, 1, 2},
        filler \in {0, 255}, n \in 0..MaxPacketLen}
    \cup {PacketExample}

-----------------------------------------------------------------------------
\* Pairing store (lines 75-91).

\* `pairing-${deviceAddress.replace(/:/g, "")}.json`
pairingFilename(deviceAddress) ==
    <<"pairing-">> \o SelectSeq(deviceAddress, LAMBDA c : c # ":") \o <<".json">>

Filenames == {pairingFilename(a) : a \in Addresses}

Digit == <<"0", "1", "2", "3", "4", "5", "6", "7", "8", "9">>

\* the decimal digits of a byte, as JSON.stringify prints a number
RECURSIVE NumberText(_)
NumberText(n) ==
    IF n < Len(Digit)
    THEN <<Digit[n + 1]>>
    ELSE NumberText(n \div Len(Digit)) \o <<Digit[(n % Len(Digit)) + 1]>>

\* the elements of an array, separated by commas
RECURSIVE ArrayText(_)
ArrayText(array) ==
    IF array = <<>>
    THEN <<>>
    ELSE IF Len(array) = 1
    THEN NumberText(Head(array))
    ELSE NumberText(Head(array)) \o <<",">> \o ArrayText(Tail(array))

ObjectOpen == <<"{", "\"", "r", "e", "s", "e", "t", "C", "o", "d", "e", "\"", ":", "[">>
ObjectClose == <<"]", "}">>

\* JSON.stringify that prints only the first element of the array
JSONstringifyFirstOnly(resetCode) ==
    IF resetCode.defined
    THEN ObjectOpen \o ArrayText(SubSeq(resetCode.value, 1, 1)) \o ObjectClose
    ELSE <<"{", "}">>

\* JSON.stringify({ resetCode }): a property that is undefined is left out
JSONstringify(resetCode) ==
    IF resetCode.defined
    THEN ObjectOpen \o ArrayText(resetCode.value) \o ObjectClose
    ELSE <<"{", "}">>

\* the number a run of decimal digits stands for
RECURSIVE NumberOf(_)
NumberOf(text) ==
    IF text = <<>>
    THEN 0
    ELSE Len(Digit) * NumberOf(SubSeq(text, 1, Len(text) - 1))
         + (CHOOSE d \in 0..(Len(Digit) - 1) : Digit[d + 1] = text[Len(text)])

\* a JSON number without sign, fraction or exponent: no leading zero
IsNumberText(text) ==
    /\ text # <<>>
    /\ \A k \in DOMAIN text : \E d \in DOMAIN Digit : Digit[d] = text[k]
    /\ Len(text) > 1 => text[1] # "0"

\* the elements of an array text from position k on: cur is the element being
\* read and acc the elements read so far
RECURSIVE ParseArray(_, _, _, _)
ParseArray(text, k, cur, acc) ==
    IF k > Len(text)
    THEN IF IsNumberText(cur)
         THEN [ok |-> TRUE, value |-> Append(acc, NumberOf(cur))]
         ELSE [ok |-> FALSE, value |-> <<>>]
    ELSE IF text[k] = ","
    THEN IF IsNumberText(cur)
         THEN ParseArray(text, k + 1, <<>>, Append(acc, NumberOf(cur)))
         ELSE [ok |-> FALSE, value |-> <<>>]
    ELSE ParseArray(text, k + 1, Append(cur, text[k]), acc)

\* JSON.parse of a file's text, for the texts a pairing file may hold: the
\* object with or without its resetCode array; ok is false when it throws
JSONparse(text) ==
    IF text = <<"{", "}">>
    THEN [ok |-> TRUE, resetCode |-> Absent]
    ELSE IF /\ Len(text) >= Len(ObjectOpen) + Len(ObjectClose)
            /\ SubSeq(text, 1, Len(ObjectOpen)) = ObjectOpen
            /\ SubSeq(text, Len(text) - Len(ObjectClose) + 1, Len(text)) = ObjectClose
    THEN LET body == SubSeq(text, Len(ObjectOpen) + 1, Len(text) - Len(ObjectClose))
             array == ParseArray(body, 1, <<>>, <<>>)
         IN  IF body = <<>>
             THEN [ok |-> TRUE, resetCode |-> Some(<<>>)]
             ELSE [ok |-> array.ok, resetCode |-> Some(array.value)]
    ELSE [ok |-> FALSE, resetCode |-> Absent]

NoFile == [kind |-> "nofile", text |-> <<>>]
File(text) == [kind |-> "file", text |-> text]
\* a file that JSON.parse rejects
Corrupt == File(<<"{">>)
\* the file holding JSON.stringify({ resetCode })
JsonFile(resetCode) == File(JSONstringify(resetCode))

StoredCode == <<9, 8, 7, 6>>
FileContents == {NoFile, Corrupt, JsonFile(Absent), JsonFile(Some(StoredCode))}

\* fs.readFileSync(filename): the content, NoFile when there is no such file
readFileSync(files, filename) ==
    IF filename \in DOMAIN files THEN files[filename] ELSE NoFile

\* readPairingInfo throws when readFileSync or JSON.parse throws
readPairingInfoThrows(files, deviceAddress) ==
    LET file == readFileSync(files, pairingFilename(deviceAddress))
    IN  file.kind = "nofile" \/ ~JSONparse(file.text).ok

\* readPairingInfo(deviceAddress).resetCode: a value, or undefined
readPairingInfo(files, deviceAddress) ==
    JSONparse(readFileSync(files, pairingFilename(deviceAddress)).text).resetCode

\* fs.writeFileSync(filename, data): the file is created or replaced
writeFileSync(files, filename, data) ==
    [f \in DOMAIN files \cup {filename} |->
        IF f = filename THEN File(data) ELSE files[f]]

\* writePairingInfo under one filename for every address
writePairingInfoOneFile(files, deviceAddress, resetCode) ==
    writeFileSync(files, pairingFilename(Addr2), JSONstringify(Some(resetCode)))

\* writePairingInfo: fs.writeFileSync(filename, JSON.stringify({ resetCode }))
writePairingInfo(files, deviceAddress, resetCode) ==
    writeFileSync(files, pairingFilename(deviceAddress),
                  JSONstringify(Some(resetCode)))

-----------------------------------------------------------------------------
\* Buffers and decoding.

\* buf[i] with a zero-based index: undefined past the end
At(buf, i) == IF i + 1 <= Len(buf) THEN buf[i + 1] ELSE Undefined

\* buf.slice(from, to)
Slice(buf, from, to) ==
    SubSeq(buf, from + 1, IF to < Len(buf) THEN to ELSE Len(buf))

NaN == [nan |-> TRUE, whole |-> 0, tenth |-> 0]

\* Temperature with the two bytes read in big-endian order
TemperatureBigEndian(hi, lo) ==
    IF hi = Undefined \/ lo = Undefined
    THEN NaN
    ELSE [nan |-> FALSE,
          whole |-> (256 * lo + hi) \div 10,
          tenth |-> (256 * lo + hi) % 10]

\* (256 * hi + lo) / 10: NaN when a byte is undefined, else the number with
\* one decimal digit
Temperature(hi, lo) ==
    IF hi = Undefined \/ lo = Undefined
    THEN NaN
    ELSE [nan |-> FALSE,
          whole |-> (256 * hi + lo) \div 10,
          tenth |-> (256 * hi + lo) % 10]

\* line 234: the packet is decoded and printed
IsStatsKind(stats) == At(stats, 0) = StatsKind

\* DecodeStats with the relay flag read one byte too far
DecodeStatsRelayAt9(stats) ==
    [targetTemperature |-> Temperature(At(stats, 2), At(stats, 1)),
     roomTemperature |-> Temperature(At(stats, 5), At(stats, 4)),
     relayIsOn |-> (At(stats, 9) = 1)]

\* lines 235-238
DecodeStats(stats) ==
    [targetTemperature |-> Temperature(At(stats, 2), At(stats, 1)),
     roomTemperature |-> Temperature(At(stats, 5), At(stats, 4)),
     relayIsOn |-> (At(stats, 8) = 1)]

\* lines 223-226: .slice(1).toString().replace(/\x00/g, "")
DecodeName(raw) ==
    SelectSeq(Slice(raw, 1, Len(raw)), LAMBDA b : b # 0)

\* String(localName) as the regular expression test sees it
NameText(localName) ==
    IF localName.defined
    THEN localName.value
    ELSE <<"u", "n", "d", "e", "f", "i", "n", "e", "d">>

\* /^ECO16BT /.test(localName)  (line 152)
MatchesFamily(localName) ==
    /\ Len(NameText(localName)) >= Len(FamilyPrefix)
    /\ SubSeq(NameText(localName), 1, Len(FamilyPrefix)) = FamilyPrefix

\* manufacturerData[10] throws a TypeError when manufacturerData is undefined
PairingThrows(manufacturerData) == ~manufacturerData.defined

\* manufacturerData[10] === 49  (line 157)
PairingFlag(manufacturerData) ==
    At(manufacturerData.value, PairingIndex) = PairingChar

-----------------------------------------------------------------------------
\* Process state.

Running == exit = "running"

\* the global variables no handler assigns after the argument loop
Config == <<argv, mode, targetDeviceAddress, keepReading>>

\* dieOnError that exits with code 0
dieOnErrorSucceeds(error) ==
    /\ exit' = "exit0"
    /\ stderr' = error

\* dieOnError (lines 9-16): an uncaught exception or an unhandled rejection
dieOnError(error) ==
    /\ exit' = "exit1"
    /\ stderr' = error

\* one invocation of the read branch of the "discover" handler with its call of
\* connect(): pc is the await it is suspended at, or the place where it ended
NewSession(address, pairing) ==
    [address |-> address,
     pairing |-> pairing,
     pc |-> "stopScanning",
     listening |-> FALSE,
     chars |-> {},
     resetMsg |-> <<>>,
     resetCode |-> <<>>,
     deviceName |-> <<>>,
     ops |-> <<"stopScanning">>,
     stats |-> <<>>]

Ids == DOMAIN sessions

\* the session moves to the next await, issuing the transport call op
Goto(i, pc, op) ==
    [sessions EXCEPT ![i].pc = pc, ![i].ops = Append(@, op)]

\* the awaited call of session i was rejected: unhandledRejection
Rejected(i) ==
    /\ sessions' = [sessions EXCEPT ![i].pc = "rejected"]
    /\ dieOnError("TransportError")
    /\ UNCHANGED <<Config, scanning, store, writes, out, found, connected, disconnected>>

\* session i threw a TypeError at its next statement
Threw(i, next) ==
    /\ sessions' = [next EXCEPT ![i].pc = "threw"]
    /\ dieOnError("TypeError")
    /\ UNCHANGED <<Config, scanning, store, writes, out, found, connected, disconnected>>

\* the transport calls a session may be suspended at
TransportPcs ==
    {"connect", "discover", "resetRead", "resetWrite", "dnameRead", "statsRead"}

StatsReads(s) == Len(SelectSeq(s.ops, LAMBDA op : op = "statsRead"))

-----------------------------------------------------------------------------
\* noble.on("stateChange") (lines 132-144)

OnStateChange(state) ==
    /\ Running
    /\ scanning' = (state = "poweredOn")
    /\ UNCHANGED <<Config, exit, stderr, store, writes, sessions, out, found, connected,
                   disconnected>>

-----------------------------------------------------------------------------
\* noble.on("discover") up to its first await (lines 146-165)

\* line 152: the advertisement is one of the family
Accepts(adv) == MatchesFamily(adv.localName)

\* line 163
IsTarget(adv) == Some(adv.address) = targetDeviceAddress

OnDiscover(adv) ==
    /\ Running
    /\ scanning
    /\ IF ~Accepts(adv)
       THEN UNCHANGED vars
       ELSE IF PairingThrows(adv.manufacturerData)
       THEN /\ dieOnError("TypeError")
            /\ UNCHANGED <<Config, scanning, store, writes, sessions, out, found,
                           connected, disconnected>>
       ELSE IF mode = "SCAN"
       THEN /\ found' = found \cup
                  {[address |-> adv.address,
                    localName |-> adv.localName.value,
                    pairing |-> PairingFlag(adv.manufacturerData)]}
            /\ UNCHANGED <<Config, scanning, exit, stderr, store, writes, sessions, out,
                           connected, disconnected>>
       ELSE IF IsTarget(adv)
       THEN /\ Len(sessions) < MaxSessions
            /\ sessions' = Append(sessions,
                  NewSession(adv.address, PairingFlag(adv.manufacturerData)))
            /\ UNCHANGED <<Config, scanning, exit, stderr, store, writes, out, found,
                           connected, disconnected>>
       ELSE UNCHANGED vars

\* lines 165-170 and 176-177: stopScanningAsync resolved; the disconnect
\* listener is registered and connect() calls connectAsync
StopScanningDone(i, ok) ==
    /\ Running
    /\ i \in Ids
    /\ sessions[i].pc = "stopScanning"
    /\ IF ~ok
       THEN Rejected(i)
       ELSE /\ scanning' = FALSE
            /\ sessions' = [Goto(i, "connect", "connect") EXCEPT ![i].listening = TRUE]
            /\ UNCHANGED <<Config, exit, stderr, store, writes, out, found, connected,
                           disconnected>>

\* OnDisconnect that logs and lets the process run on
OnDisconnectLogsOnly ==
    /\ stderr' = "Error: device disconnected, exiting"
    /\ exit' = exit

\* lines 166-169: the "disconnect" listener
OnDisconnect ==
    /\ stderr' = "Error: device disconnected, exiting"
    /\ exit' = "exit1"

\* the peripheral emits "disconnect"
Disconnect ==
    /\ Running
    /\ connected
    /\ \E i \in Ids : sessions[i].listening
    /\ connected' = FALSE
    /\ disconnected' = TRUE
    /\ OnDisconnect
    /\ UNCHANGED <<Config, scanning, store, writes, sessions, out, found>>

-----------------------------------------------------------------------------
\* connect() (lines 175-256)

\* lines 177-184: connectAsync resolved, discovery is started
ConnectDone(i, ok) ==
    /\ Running
    /\ i \in Ids
    /\ sessions[i].pc = "connect"
    /\ IF ~ok
       THEN Rejected(i)
       ELSE /\ connected' = TRUE
            /\ sessions' = Goto(i, "discover", "discover")
            /\ UNCHANGED <<Config, scanning, exit, stderr, store, writes, out, found,
                           disconnected>>

\* lines 219-220: resetChar.writeAsync(Buffer.from(resetCode), false) with
\* resetCode a value or undefined
Authenticate(i, next, resetCode) ==
    IF "reset" \notin next[i].chars \/ ~resetCode.defined
    THEN Threw(i, next)
    ELSE /\ sessions' = [next EXCEPT ![i].pc = "resetWrite",
                                     ![i].ops = Append(@, "resetWrite"),
                                     ![i].resetCode = resetCode.value]
         /\ UNCHANGED <<Config, scanning, exit, stderr, out, found, connected,
                        disconnected>>

\* NoPairingInfo that goes on with an all-zero reset code instead of exiting
NoPairingInfoGoesOn(i, next) ==
    /\ Authenticate(i, next, Some(<<0, 0, 0, 0>>))
    /\ UNCHANGED <<store, writes>>

\* lines 207-216: the normal branch has no usable pairing file
NoPairingInfo(i, next) ==
    /\ sessions' = [next EXCEPT ![i].pc = "noPairingInfo"]
    /\ exit' = "exit1"
    /\ UNCHANGED <<Config, scanning, stderr, store, writes, out, found, connected,
                   disconnected>>

\* lines 184-220: the discovery resolved; the pairing branch reads the reset
\* code, the normal branch loads it and writes it to the device
DiscoverDone(i, ok, chars) ==
    /\ Running
    /\ i \in Ids
    /\ sessions[i].pc = "discover"
    /\ IF ~ok
       THEN Rejected(i)
       ELSE LET found1 == [sessions EXCEPT ![i].chars = chars]
                loaded == [found1 EXCEPT ![i].ops = Append(@, "storeLoad")]
            IN  IF sessions[i].pairing
                THEN IF "reset" \notin chars
                     THEN Threw(i, found1)
                     ELSE /\ sessions' =
                                [found1 EXCEPT ![i].pc = "resetRead",
                                               ![i].ops = Append(@, "resetRead")]
                          /\ UNCHANGED <<Config, scanning, exit, stderr, store, writes, out,
                                         found, connected, disconnected>>
                ELSE IF readPairingInfoThrows(store, sessions[i].address)
                     THEN NoPairingInfo(i, loaded)
                     ELSE /\ Authenticate(i, loaded,
                                readPairingInfo(store, sessions[i].address))
                          /\ UNCHANGED <<store, writes>>

\* ResetReadDone that stores the first four bytes and writes the whole answer
\* back to the device
ResetReadDoneWritesAnswer(i, ok, msg) ==
    /\ Running
    /\ i \in Ids
    /\ sessions[i].pc = "resetRead"
    /\ IF ~ok
       THEN Rejected(i)
       ELSE LET resetCode == Slice(msg, 0, ResetCodeLen)
                saved == [sessions EXCEPT ![i].resetMsg = msg,
                                          ![i].ops = Append(@, "storeSave")]
            IN  /\ store' = writePairingInfo(store, sessions[i].address, resetCode)
                /\ writes' = Append(writes, <<sessions[i].address, resetCode>>)
                /\ Authenticate(i, saved, Some(msg))

\* lines 196-220: the reset code was read; it is stored and written back
ResetReadDone(i, ok, msg) ==
    /\ Running
    /\ i \in Ids
    /\ sessions[i].pc = "resetRead"
    /\ IF ~ok
       THEN Rejected(i)
       ELSE LET resetCode == Slice(msg, 0, ResetCodeLen)
                saved == [sessions EXCEPT ![i].resetMsg = msg,
                                          ![i].ops = Append(@, "storeSave")]
            IN  /\ store' = writePairingInfo(store, sessions[i].address, resetCode)
                /\ writes' = Append(writes, <<sessions[i].address, resetCode>>)
                /\ Authenticate(i, saved, Some(resetCode))

\* lines 220-223: the write resolved, the device name is read
ResetWriteDone(i, ok) ==
    /\ Running
    /\ i \in Ids
    /\ sessions[i].pc = "resetWrite"
    /\ IF ~ok
       THEN Rejected(i)
       ELSE IF "dname" \notin sessions[i].chars
       THEN Threw(i, sessions)
       ELSE /\ sessions' = Goto(i, "dnameRead", "dnameRead")
            /\ UNCHANGED <<Config, scanning, exit, stderr, store, writes, out, found,
                           connected, disconnected>>

\* lines 223-229: the name was read; the loop starts with a stats read
DnameReadDone(i, ok, raw) ==
    /\ Running
    /\ i \in Ids
    /\ sessions[i].pc = "dnameRead"
    /\ IF ~ok
       THEN Rejected(i)
       ELSE LET named == [sessions EXCEPT ![i].deviceName = DecodeName(raw)]
            IN  IF "stats" \notin sessions[i].chars
                THEN Threw(i, named)
                ELSE /\ sessions' = [named EXCEPT ![i].pc = "statsRead",
                                                  ![i].ops = Append(@, "statsRead")]
                     /\ UNCHANGED <<Config, scanning, exit, stderr, store, writes, out,
                                    found, connected, disconnected>>

\* Reading without the device name
ReadingUnnamed(i, stats) ==
    [session |-> i,
     address |-> sessions[i].address,
     deviceName |-> <<>>,
     relayIsOn |-> DecodeStats(stats).relayIsOn,
     roomTemperature |-> DecodeStats(stats).roomTemperature,
     targetTemperature |-> DecodeStats(stats).targetTemperature]

\* lines 239-248: the record printed for a stats packet
Reading(i, stats) ==
    [session |-> i,
     address |-> sessions[i].address,
     deviceName |-> sessions[i].deviceName,
     relayIsOn |-> DecodeStats(stats).relayIsOn,
     roomTemperature |-> DecodeStats(stats).roomTemperature,
     targetTemperature |-> DecodeStats(stats).targetTemperature]

\* Printed without the test of the first byte
PrintedAnyKind(i, stats) == Append(out, Reading(i, stats))

\* lines 234-249: what stdout holds after the packet was handled
Printed(i, stats) ==
    IF IsStatsKind(stats) THEN Append(out, Reading(i, stats)) ELSE out

\* LoopExits for a loop that ends after its first read in every mode
LoopExitsAlways == TRUE

\* line 254-255: the loop ends and the process exits unless --keep-reading
LoopExits == ~keepReading

\* lines 229-255: a stats read resolved
StatsReadDone(i, ok, stats) ==
    /\ Running
    /\ i \in Ids
    /\ sessions[i].pc = "statsRead"
    /\ IF ~ok
       THEN Rejected(i)
       ELSE /\ out' = Printed(i, stats)
            /\ sessions' = [sessions EXCEPT
                  ![i].stats = Append(@, stats),
                  ![i].pc = IF LoopExits THEN "exit0" ELSE "wait"]
            /\ exit' = IF LoopExits THEN "exit0" ELSE exit
            /\ UNCHANGED <<Config, scanning, stderr, store, writes, found, connected,
                           disconnected>>

\* lines 252-254 and 229: the timer fired, the loop reads again
WaitDone(i) ==
    /\ Running
    /\ i \in Ids
    /\ sessions[i].pc = "wait"
    /\ StatsReads(sessions[i]) < MaxReads
    /\ sessions' = Goto(i, "statsRead", "statsRead")
    /\ UNCHANGED <<Config, scanning, exit, stderr, store, writes, out, found, connected,
                   disconnected>>

-----------------------------------------------------------------------------
\* The argument loop (lines 102-130).

TokScan == <<"-", "-", "s", "c", "a", "n">>
TokRead == <<"-", "-", "r", "e", "a", "d">>
TokKeepReading ==
    <<"-", "-", "k", "e", "e", "p", "-", "r", "e", "a", "d", "i", "n", "g">>
TokVerbose == <<"-", "-", "v", "e", "r", "b", "o", "s", "e">>
\* an argument the loop does not know
TokUnknown == <<"-", "-", "x">>
\* Addr1 as a user may type it
Addr1Upper == <<"9", "0", ":", "F", "D", ":", "9", "F", ":", "1", "2", ":",
                "3", "4", ":", "5", "6">>
\* an address that lacks its last digit
AddrShort == SubSeq(Addr1, 1, Len(Addr1) - 1)
Tokens ==
    {TokScan, TokRead, TokKeepReading, TokVerbose, TokUnknown, Addr1,
     Addr1Upper, AddrShort}

\* most arguments of a command line
MaxArgs == 3
ArgLists == UNION {[1..n -> Tokens] : n \in 0..MaxArgs}

UpperCase == <<"A", "B", "C", "D", "E", "F">>
LowerCase == <<"a", "b", "c", "d", "e", "f">>
HexDigits == {Digit[k] : k \in DOMAIN Digit} \cup {LowerCase[k] : k \in DOMAIN LowerCase}

\* String.prototype.toLowerCase, on the letters of the model's tokens
toLowerCase(text) ==
    [k \in DOMAIN text |->
        IF \E u \in DOMAIN UpperCase : UpperCase[u] = text[k]
        THEN LowerCase[CHOOSE u \in DOMAIN UpperCase : UpperCase[u] = text[k]]
        ELSE text[k]]

\* the groups of two hex digits of the regular expression of line 108
AddressGroups == 6

\* /^[0-9a-f]{2}(:[0-9a-f]{2}){5}$/i.test(text)  (line 108)
IsAddress(text) ==
    /\ Len(text) = 3 * AddressGroups - 1
    /\ \A k \in DOMAIN text :
          IF k % 3 = 0 THEN text[k] = ":" ELSE toLowerCase(text)[k] \in HexDigits

\* the globals of lines 93-96 as declared; end is how the loop ended
Globals ==
    [mode |-> "undefined", targetDeviceAddress |-> Absent, verbosity |-> 0,
     keepReading |-> FALSE, end |-> "loop"]

\* usage() (lines 18-73): prints the usage text and exits with code 1
usage(g) == [g EXCEPT !.end = "usage"]

\* lines 103-130: the loop over the arguments and the test that follows it
RECURSIVE ArgLoop(_, _)
ArgLoop(args, g) ==
    IF args = <<>>
    THEN IF g.mode = "undefined" THEN usage(g) ELSE [g EXCEPT !.end = "ok"]
    ELSE LET arg == Head(args)
             rest == Tail(args)
         IN  IF arg = TokRead
             THEN IF rest = <<>>
                  THEN [g EXCEPT !.end = "TypeError"]
                  ELSE LET address == toLowerCase(Head(rest))
                           read == [g EXCEPT !.targetDeviceAddress = Some(address)]
                       IN  IF ~IsAddress(address) \/ g.mode # "undefined"
                           THEN usage(read)
                           ELSE ArgLoop(Tail(rest), [read EXCEPT !.mode = "READ"])
             ELSE IF arg = TokKeepReading
             THEN ArgLoop(rest, [g EXCEPT !.keepReading = TRUE])
             ELSE IF arg = TokScan
             THEN IF g.mode # "undefined"
                  THEN usage(g)
                  ELSE ArgLoop(rest, [g EXCEPT !.mode = "SCAN"])
             ELSE IF arg = TokVerbose
             THEN ArgLoop(rest, [g EXCEPT !.verbosity = @ + 1])
             ELSE usage(g)

\* what the process printed when the argument loop ended it
EndText(end) ==
    CASE end = "usage" -> "USAGE"
      [] end = "TypeError" -> "TypeError"
      [] OTHER -> ""

\* lines 93-130: the module's top-level code runs to its end or to an exit
\* before any event is delivered
Main ==
    /\ exit = "starting"
    /\ LET g == ArgLoop(argv, Globals)
       IN  /\ mode' = g.mode
           /\ targetDeviceAddress' = g.targetDeviceAddress
           /\ keepReading' = g.keepReading
           /\ exit' = IF g.end = "ok" THEN "running" ELSE "exit1"
           /\ stderr' = EndText(g.end)
    /\ UNCHANGED <<argv, scanning, store, writes, sessions, out, found,
                   connected, disconnected>>

-----------------------------------------------------------------------------
\* The program after its argument loop (lines 93-130), and its events.

OtherFile == JsonFile(Some(<<5, 5, 5, 5>>))

\* command lines the argument loop accepts
StartArgs ==
    {<<TokScan>>, <<TokScan, TokKeepReading>>, <<TokRead, Addr1>>,
     <<TokRead, Addr1, TokKeepReading>>}

Init ==
    /\ argv \in StartArgs
    /\ mode = ArgLoop(argv, Globals).mode
    /\ targetDeviceAddress = ArgLoop(argv, Globals).targetDeviceAddress
    /\ keepReading = ArgLoop(argv, Globals).keepReading
    /\ scanning = FALSE
    /\ exit = "running"
    /\ stderr = ""
    /\ store \in {[f \in Filenames |->
                      IF f = pairingFilename(Addr1) THEN c ELSE OtherFile] :
                  c \in FileContents}
    /\ writes = <<>>
    /\ sessions = <<>>
    /\ out = <<>>
    /\ found = {}
    /\ connected = FALSE
    /\ disconnected = FALSE

Next ==
    \/ \E state \in {"poweredOn", "poweredOff"} : OnStateChange(state)
    \/ \E adv \in Advertisements : OnDiscover(adv)
    \/ Disconnect
    \/ \E i \in 1..MaxSessions, ok \in BOOLEAN : StopScanningDone(i, ok)
    \/ \E i \in 1..MaxSessions, ok \in BOOLEAN : ConnectDone(i, ok)
    \/ \E i \in 1..MaxSessions, ok \in BOOLEAN, chars \in CharSets :
          DiscoverDone(i, ok, chars)
    \/ \E i \in 1..MaxSessions, ok \in BOOLEAN, msg \in ResetMsgs :
          ResetReadDone(i, ok, msg)
    \/ \E i \in 1..MaxSessions, ok \in BOOLEAN : ResetWriteDone(i, ok)
    \/ \E i \in 1..MaxSessions, ok \in BOOLEAN, raw \in DnameMsgs :
          DnameReadDone(i, ok, raw)
    \/ \E i \in 1..MaxSessions, ok \in BOOLEAN, stats \in SessionPackets :
          StatsReadDone(i, ok, stats)
    \/ \E i \in 1..MaxSessions : WaitDone(i)

Spec == Init /\ [][Next]_vars

-----------------------------------------------------------------------------
\* The decoder: a session of the normal branch suspended at its first stats
\* read (line 229), and every packet the device may answer with.

PollingSession ==
    [address |-> Addr1,
     pairing |-> FALSE,
     pc |-> "statsRead",
     listening |-> TRUE,
     chars |-> AllChars,
     resetMsg |-> <<>>,
     resetCode |-> StoredCode,
     deviceName |-> DecodeName(<<9, 76, 105, 118, 0, 0>>),
     ops |-> <<"stopScanning", "connect", "discover", "storeLoad", "resetWrite",
               "dnameRead", "statsRead">>,
     stats |-> <<>>]

InitDecode ==
    /\ argv = <<TokRead, Addr1>>
    /\ mode = "READ"
    /\ targetDeviceAddress = Some(Addr1)
    /\ keepReading = FALSE
    /\ scanning = FALSE
    /\ exit = "running"
    /\ stderr = ""
    /\ store = [f \in Filenames |->
                  IF f = pairingFilename(Addr1)
                  THEN JsonFile(Some(StoredCode)) ELSE OtherFile]
    /\ writes = <<>>
    /\ sessions = <<PollingSession>>
    /\ out = <<>>
    /\ found = {}
    /\ connected = TRUE
    /\ disconnected = FALSE

NextDecode == \E stats \in DecoderPackets : StatsReadDone(1, TRUE, stats)

SpecDecode == InitDecode /\ [][NextDecode]_vars

-----------------------------------------------------------------------------
\* The pairing store alone: writePairingInfo called for any address with any
\* reset code, in any order (lines 75-91).

\* valid addresses that differ in their first or in their last digit
StoreAddresses ==
    {[Addr1 EXCEPT ![1] = x, ![Len(Addr1)] = z] : x, z \in {"0", "f"}}
StoreCodes == {<<0, 0, 0, 0>>, <<1, 2, 3, 4>>, <<255, 10, 100, 9>>}
\* calls of writePairingInfo in one run
MaxSaves == 3

InitStore ==
    /\ argv = <<TokRead, Addr1>>
    /\ mode = "READ"
    /\ targetDeviceAddress = Some(Addr1)
    /\ keepReading = FALSE
    /\ scanning = FALSE
    /\ exit = "running"
    /\ stderr = ""
    /\ store \in {[f \in names |-> Corrupt] :
                  names \in {{}, {pairingFilename(a) : a \in StoreAddresses}}}
    /\ writes = <<>>
    /\ sessions = <<>>
    /\ out = <<>>
    /\ found = {}
    /\ connected = FALSE
    /\ disconnected = FALSE

Save(deviceAddress, resetCode) ==
    /\ Len(writes) < MaxSaves
    /\ store' = writePairingInfo(store, deviceAddress, resetCode)
    /\ writes' = Append(writes, <<deviceAddress, resetCode>>)
    /\ UNCHANGED <<Config, scanning, exit, stderr, sessions, out, found,
                   connected, disconnected>>

NextStore == \E a \in StoreAddresses, c \in StoreCodes : Save(a, c)

SpecStore == InitStore /\ [][NextStore]_vars

-----------------------------------------------------------------------------
\* The start of the process: any command line, the argument loop, and the
\* adapter's state changes that follow it (lines 93-144).

InitArgs ==
    /\ argv \in ArgLists
    /\ mode = Globals.mode
    /\ targetDeviceAddress = Globals.targetDeviceAddress
    /\ keepReading = Globals.keepReading
    /\ scanning = FALSE
    /\ exit = "starting"
    /\ stderr = ""
    /\ store = [f \in Filenames |-> NoFile]
    /\ writes = <<>>
    /\ sessions = <<>>
    /\ out = <<>>
    /\ found = {}
    /\ connected = FALSE
    /\ disconnected = FALSE

NextArgs ==
    \/ Main
    \/ \E state \in {"poweredOn", "poweredOff"} : OnStateChange(state)

SpecArgs == InitArgs /\ [][NextArgs]_vars

-----------------------------------------------------------------------------
\* Properties.

Ops(s) == {s.ops[k] : k \in DOMAIN s.ops}

\* the records session i printed, in order
RecordsOf(i) == SelectSeq(out, LAMBDA r : r.session = i)

\* the packet's first byte is 0x80
HasKind(p) == Len(p) >= 1 /\ p[1] = StatsKind

\* the stats packets of kind 0x80 session s received, in order
KindPackets(s) == SelectSeq(s.stats, HasKind)

LastOf(seq) == seq[Len(seq)]

\* C1: a session of the normal branch (pairing flag false) whose address has
\* no pairing file ends the process with exit code 1 at the load: it never
\* reads or writes the reset-code characteristic, never reads the device name
\* or the stats, prints no record and saves nothing to the store.
C1_NoRecordFailsBeforePolling ==
    \A i \in Ids :
        LET s == sessions[i]
        IN  (~s.pairing /\ store[pairingFilename(s.address)] = NoFile) =>
                /\ Ops(s) \cap {"resetRead", "storeSave", "resetWrite",
                               "dnameRead", "statsRead"} = {}
                /\ s.stats = <<>>
                /\ RecordsOf(i) = <<>>
                /\ s.pc \in {"stopScanning", "connect", "discover", "rejected",
                            "noPairingInfo"}
                /\ ("storeLoad" \in Ops(s) => s.pc = "noPairingInfo" /\ exit = "exit1")

C1_Witness ==
    \E i \in Ids :
        /\ ~sessions[i].pairing
        /\ store[pairingFilename(sessions[i].address)] = NoFile
        /\ sessions[i].pc = "noPairingInfo"
        /\ exit = "exit1"

\* C2: in non-continuous mode a session exits with code 0 only after it has
\* printed at least one record.
C2_SuccessOnlyAfterReading ==
    \A i \in Ids : sessions[i].pc = "exit0" => Len(RecordsOf(i)) >= 1

\* C3: at most one connection attempt is made per invocation of the program
\* and no two transport calls for the device are in flight together.
C3_OneTransportCallAtATime ==
    /\ Cardinality({i \in Ids : "connect" \in Ops(sessions[i])}) <= 1
    /\ Cardinality({i \in Ids : sessions[i].pc \in TransportPcs}) <= 1

\* C4: once the disconnect listener has run the process has exited with code
\* 1, and no step follows: no transport call, store access, record or
\* connection.
C4_DisconnectIsFatal ==
    /\ [](disconnected => exit = "exit1")
    /\ [][disconnected => UNCHANGED vars]_vars

C4_Witness ==
    /\ disconnected
    /\ \E i \in Ids : sessions[i].pc = "statsRead"
    /\ \E i \in Ids : sessions[i].pc = "resetWrite"

\* C5: a session has printed exactly one record per stats packet of kind 0x80
\* it has received, at every moment (so before its next read is issued), and
\* a packet of another kind, the empty one included, prints nothing and
\* raises no error: the session waits (continuous mode) or exits with code 0.
C5_OneRecordPerKindPacket ==
    \A i \in Ids :
        LET s == sessions[i]
        IN  /\ Len(RecordsOf(i)) = Len(KindPackets(s))
            /\ (/\ s.stats # <<>>
                /\ ~HasKind(LastOf(s.stats))
                /\ StatsReads(s) = Len(s.stats))
               => s.pc = (IF keepReading THEN "wait" ELSE "exit0")

C5_Witness ==
    \E i \in Ids :
        /\ sessions[i].stats = <<<<>>>>
        /\ sessions[i].pc = "statsRead"
        /\ StatsReads(sessions[i]) = 2
        /\ out = <<>>
        /\ Running

\* shortest packet that holds the bytes 1, 2, 4, 5 and 8 (line 238)
MinStatsLen == 9

\* C6: a stats packet of kind 0x80 shorter than 9 bytes ends the process with
\* exit code 1 and prints no record.
C6_ShortPacketFails ==
    \A i \in Ids :
        LET s == sessions[i]
            short == SelectSeq(KindPackets(s), LAMBDA p : Len(p) < MinStatsLen)
        IN  short # <<>> =>
                /\ exit = "exit1"
                /\ Len(RecordsOf(i)) = Len(KindPackets(s)) - Len(short)

\* C7: the packet 80 C3 00 00 00 CD 00 00 00 01 is printed as target
\* temperature 19.5, room temperature 20.5, relay on.
C7_ExamplePacket ==
    \A i \in Ids :
        (sessions[i].stats # <<>> /\ LastOf(sessions[i].stats) = PacketExample) =>
            /\ RecordsOf(i) # <<>>
            /\ LastOf(RecordsOf(i)).targetTemperature =
                   [nan |-> FALSE, whole |-> 19, tenth |-> 5]
            /\ LastOf(RecordsOf(i)).roomTemperature =
                   [nan |-> FALSE, whole |-> 20, tenth |-> 5]
            /\ LastOf(RecordsOf(i)).relayIsOn = TRUE

\* C7 as the code decodes it: bytes 4 and 5 of the packet are 00 CD and byte
\* 8 is 00, so the packet is printed as target temperature 19.5, room
\* temperature 5248.0 (52480 tenths), relay off.
C7_ExamplePacketAsDecoded ==
    \A i \in Ids :
        (sessions[i].stats # <<>> /\ LastOf(sessions[i].stats) = PacketExample) =>
            /\ RecordsOf(i) # <<>>
            /\ LastOf(RecordsOf(i)).targetTemperature =
                   [nan |-> FALSE, whole |-> 19, tenth |-> 5]
            /\ LastOf(RecordsOf(i)).roomTemperature =
                   [nan |-> FALSE, whole |-> 5248, tenth |-> 0]
            /\ LastOf(RecordsOf(i)).relayIsOn = FALSE

C7_Witness ==
    \E i \in Ids :
        /\ sessions[i].stats = <<PacketExample>>
        /\ Len(RecordsOf(i)) = 1

\* the value in tenths of a printed temperature
Tenths(t) == 10 * t.whole + t.tenth

\* C8: for a packet p of kind 0x80 and at least 9 bytes the record holds
\* (256*p[2] + p[1])/10, (256*p[5] + p[4])/10 and p[8] = 1 (zero-based
\* indices), the values in tenths being in 0..65535: a function of these five
\* bytes alone.
C8_DecodedFields ==
    \A i \in Ids :
        LET s == sessions[i]
            p == LastOf(s.stats)
            r == LastOf(RecordsOf(i))
        IN  (s.stats # <<>> /\ Len(p) >= MinStatsLen /\ HasKind(p)) =>
                /\ RecordsOf(i) # <<>>
                /\ ~r.targetTemperature.nan
                /\ ~r.roomTemperature.nan
                /\ Tenths(r.targetTemperature) = 256 * p[3] + p[2]
                /\ Tenths(r.roomTemperature) = 256 * p[6] + p[5]
                /\ r.targetTemperature.tenth \in 0..9
                /\ r.roomTemperature.tenth \in 0..9
                /\ Tenths(r.targetTemperature) \in 0..65535
                /\ Tenths(r.roomTemperature) \in 0..65535
                /\ r.relayIsOn = (p[9] = 1)

C8_Witness ==
    \E i \in Ids :
        /\ Len(sessions[i].stats) = 1
        /\ Len(sessions[i].stats[1]) = MaxPacketLen
        /\ sessions[i].stats[1][4] = 255
        /\ Len(RecordsOf(i)) = 1
        /\ Tenths(out[1].targetTemperature) = 65535
        /\ Tenths(out[1].roomTemperature) = 461
        /\ out[1].relayIsOn

\* C9: handling an advertisement whose name starts with "ECO16BT " never
\* fails, whatever its manufacturerData: the process runs on.
C9_FilterNeverFails ==
    [][\A adv \in Advertisements :
          (Accepts(adv) /\ OnDiscover(adv)) => exit' = "running"]_vars

\* C10: an advertisement that is not one of the family with the target's
\* address in READ mode leaves the sessions, the scanning state, the process
\* and the store as they are.
C10_OtherAdvertisementsIgnored ==
    [][\A adv \in Advertisements :
          (OnDiscover(adv) /\ ~(mode = "READ" /\ Accepts(adv) /\ IsTarget(adv)))
              => UNCHANGED <<sessions, scanning, store, writes, exit>>]_vars

\* the reset code of the last call of writePairingInfo for deviceAddress
Written(deviceAddress) ==
    SelectSeq(writes, LAMBDA w : w[1] = deviceAddress)

\* C11: after writePairingInfo(a, c), readPairingInfo(a) does not throw and
\* returns exactly c, whatever was written for other addresses in between, and
\* exactly the later c2 after a later writePairingInfo(a, c2); two valid
\* addresses never share a filename.
C11_StoreRoundTrip ==
    /\ \A a \in StoreAddresses :
          Written(a) # <<>> =>
              /\ ~readPairingInfoThrows(store, a)
              /\ readPairingInfo(store, a) = Some(LastOf(Written(a))[2])
    /\ \A a, b \in StoreAddresses :
          a # b => pairingFilename(a) # pairingFilename(b)

\* a is written, then another address, then a again with another reset code
C11_Witness ==
    /\ Len(writes) = 3
    /\ writes[1][1] = writes[3][1]
    /\ writes[2][1] # writes[1][1]
    /\ writes[1][2] # writes[3][2]
    /\ writes[3][2] = <<255, 10, 100, 9>>
    /\ readPairingInfo(store, writes[3][1]) = Some(writes[3][2])
    /\ readPairingInfo(store, writes[2][1]) = Some(writes[2][2])

-----------------------------------------------------------------------------
\* The program started with --read and --keep-reading, with the timer of line
\* 252 firing: a pending setTimeout callback is run by the event loop as long
\* as the process lives.

InitPolling == Init /\ mode = "READ" /\ keepReading

SpecPolling ==
    /\ InitPolling
    /\ [][Next]_vars
    /\ \A i \in 1..MaxSessions : WF_vars(WaitDone(i))

\* session i has completed a stats read and waits for the timer
Waiting(i) == i \in Ids /\ sessions[i].pc = "wait"

\* C12: with --keep-reading, a session whose stats read has completed, with or
\* without a record, waits for the timer and then issues another stats read
\* (here: up to MaxReads reads) unless the process has ended; no session and
\* no process ends with exit code 0; a session leaves its wait only by
\* issuing the next stats read.
C12_ContinuousKeepsPolling ==
    /\ [](keepReading =>
            /\ exit # "exit0"
            /\ \A i \in Ids :
                  /\ sessions[i].pc # "exit0"
                  /\ Len(sessions[i].stats) > 0 =>
                        /\ sessions[i].pc \in {"wait", "statsRead", "rejected"}
                        /\ Waiting(i) =>
                              Len(sessions[i].stats) = StatsReads(sessions[i]))
    /\ [][\A i \in Ids :
            (Waiting(i) /\ ~Waiting(i)') =>
                /\ sessions'[i].pc = "statsRead"
                /\ StatsReads(sessions'[i]) = StatsReads(sessions[i]) + 1]_vars
    /\ \A i \in 1..MaxSessions :
          (Waiting(i) /\ StatsReads(sessions[i]) < MaxReads)
              ~> (~Running \/ (i \in Ids /\ sessions[i].pc = "statsRead"))

\* a continuous session has read a packet of another kind, printed nothing for
\* it, waited and issued its second read
C12_Witness ==
    /\ keepReading
    /\ \E i \in Ids :
          /\ sessions[i].pc = "statsRead"
          /\ Len(sessions[i].stats) = 1
          /\ ~HasKind(sessions[i].stats[1])
          /\ StatsReads(sessions[i]) = 2
          /\ RecordsOf(i) = <<>>

-----------------------------------------------------------------------------
\* the transport calls connect() issues after the discovery
AfterDiscovery == {"resetRead", "resetWrite", "dnameRead", "statsRead"}

\* the discovery of session s returned, without one of the three
\* characteristics
MissesCharacteristic(s) == s.chars # {} /\ s.chars # AllChars

\* C13: a transport failure of a --read session is fatal at once: a session
\* whose awaited call was rejected, or whose discovery returned without a
\* required characteristic, has ended the process with exit code 1, and has
\* issued no transport call and printed no record after the failure.
C13_TransportFailureIsFatal ==
    \A i \in Ids :
        /\ sessions[i].pc = "rejected" => exit = "exit1"
        /\ MissesCharacteristic(sessions[i]) =>
              /\ exit = "exit1"
              /\ Ops(sessions[i]) \cap AfterDiscovery = {}
              /\ RecordsOf(i) = <<>>

-----------------------------------------------------------------------------
\* C14: in --scan mode, whatever is advertised, no session is started (no
\* connection, no characteristic read or written), the pairing files are
\* neither read nor written, no record is printed and the process goes on
\* running.
C14_ScanOnlyListens ==
    mode = "SCAN" =>
        /\ sessions = <<>>
        /\ ~connected
        /\ writes = <<>>
        /\ out = <<>>
        /\ exit = "running"

-----------------------------------------------------------------------------
\* the reading of a command line: "mode" for --scan and for --read with a
\* valid address, "flag" for --keep-reading and --verbose, "bad" for a --read
\* without a valid address after it and for any other argument
RECURSIVE Items(_)
Items(args) ==
    IF args = <<>>
    THEN <<>>
    ELSE IF Head(args) = TokRead
    THEN IF Len(args) = 1
         THEN <<"bad">>
         ELSE IF IsAddress(args[2])
         THEN <<"mode">> \o Items(Tail(Tail(args)))
         ELSE <<"bad">> \o Items(Tail(Tail(args)))
    ELSE IF Head(args) = TokScan
    THEN <<"mode">> \o Items(Tail(args))
    ELSE IF Head(args) \in {TokKeepReading, TokVerbose}
    THEN <<"flag">> \o Items(Tail(args))
    ELSE <<"bad">> \o Items(Tail(args))

\* exactly one mode, and nothing that is not understood
ValidInvocation(args) ==
    /\ \A k \in DOMAIN Items(args) : Items(args)[k] # "bad"
    /\ Len(SelectSeq(Items(args), LAMBDA item : item = "mode")) = 1

\* C15: after the argument loop the process runs on (and may start a scan)
\* only if the command line holds exactly one of --scan and --read with a valid
\* address; for every other command line it has printed the usage text and
\* exited with code 1, without scanning.
C15_InvalidArgsPrintUsage ==
    exit # "starting" =>
        /\ exit = "running" <=> ValidInvocation(argv)
        /\ ~ValidInvocation(argv) =>
              /\ exit = "exit1"
              /\ stderr = "USAGE"
              /\ ~scanning

-----------------------------------------------------------------------------
\* the steps of the pairing branch session s has taken, in order
PairingSteps(s) ==
    SelectSeq(s.ops, LAMBDA op : op \in {"resetRead", "storeSave", "resetWrite"})

\* session i issues its write to the reset-code characteristic in this step
IssuesResetWrite(i) ==
    /\ i \in Ids
    /\ "resetWrite" \notin Ops(sessions[i])
    /\ "resetWrite" \in Ops(sessions'[i])

\* C16: a session of the pairing branch reads the reset-code characteristic,
\* then saves, then writes to the characteristic, in this order; the reset
\* code is the first four bytes of the answer (all of a shorter answer); in the
\* step that issues the write the pairing file of the device's address holds
\* exactly the reset code that is written, whatever it held before, and from
\* then on the file holds the reset code of the latest such write.
C16_PairingSavesThenWrites ==
    /\ [](\A i \in Ids :
            LET s == sessions[i]
            IN  s.pairing =>
                  /\ PairingSteps(s) \in
                        {<<>>, <<"resetRead">>,
                         <<"resetRead", "storeSave", "resetWrite">>}
                  /\ "resetWrite" \in Ops(s) =>
                        /\ s.resetCode =
                              SubSeq(s.resetMsg, 1,
                                     IF Len(s.resetMsg) < ResetCodeLen
                                     THEN Len(s.resetMsg) ELSE ResetCodeLen)
                        /\ \E k \in DOMAIN writes :
                              writes[k] = <<s.address, s.resetCode>>
                        /\ ~readPairingInfoThrows(store, s.address)
                        /\ readPairingInfo(store, s.address) =
                              Some(LastOf(Written(s.address))[2])
                        /\ Len(Written(s.address)) = 1 =>
                              LastOf(Written(s.address))[2] = s.resetCode)
    /\ [][\A i \in 1..MaxSessions :
            (IssuesResetWrite(i) /\ sessions[i].pairing) =>
                /\ ~readPairingInfoThrows(store', sessions[i].address)
                /\ readPairingInfo(store', sessions[i].address)
                       = Some(sessions'[i].resetCode)
                /\ writes' = Append(writes,
                                <<sessions[i].address, sessions'[i].resetCode>>)]_vars

\* a pairing session has read a six-byte answer, replaced the pairing file and
\* issued the write of the first four bytes
C16_Witness ==
    \E i \in Ids :
        /\ sessions[i].pairing
        /\ sessions[i].pc = "resetWrite"
        /\ sessions[i].resetMsg = <<1, 2, 3, 4, 5, 6>>
        /\ sessions[i].resetCode = <<1, 2, 3, 4>>
        /\ readPairingInfo(store, sessions[i].address) = Some(<<1, 2, 3, 4>>)
        /\ writes = <<<<sessions[i].address, <<1, 2, 3, 4>>>>>>

-----------------------------------------------------------------------------
\* the positions in the calls of session s at which op was issued
IssuedAt(s, op) == {k \in DOMAIN s.ops : s.ops[k] = op}

\* session i issues op in this step
Issues(i, op) ==
    /\ i \in Ids
    /\ Cardinality(IssuedAt(sessions'[i], op)) > Cardinality(IssuedAt(sessions[i], op))

\* C17: in each session, of either branch, the device name is read at most
\* once, the read is issued by the step in which the write to the reset-code
\* characteristic resolved, the first stats read is issued by the step in
\* which the name read resolved, and every stats read comes after both; the
\* name does not change once a stats read is issued, and every record of the
\* session carries it and the address given with --read.
C17_NameOnceBeforePolling ==
    /\ [](\A i \in Ids :
            LET s == sessions[i]
            IN  /\ Cardinality(IssuedAt(s, "dnameRead")) <= 1
                /\ Cardinality(IssuedAt(s, "resetWrite")) <= 1
                /\ \A n \in IssuedAt(s, "dnameRead") :
                      \E w \in IssuedAt(s, "resetWrite") : w < n
                /\ \A r \in IssuedAt(s, "statsRead") :
                      \E n \in IssuedAt(s, "dnameRead") : n < r
                /\ \A k \in DOMAIN RecordsOf(i) :
                      /\ RecordsOf(i)[k].deviceName = s.deviceName
                      /\ Some(RecordsOf(i)[k].address) = targetDeviceAddress)
    /\ [][\A i \in 1..MaxSessions :
            /\ Issues(i, "dnameRead") => sessions[i].pc = "resetWrite"
            /\ (Issues(i, "statsRead") /\ IssuedAt(sessions[i], "statsRead") = {})
                  => sessions[i].pc = "dnameRead"
            /\ (i \in Ids /\ sessions'[i].deviceName # sessions[i].deviceName)
                  => sessions[i].pc = "dnameRead"]_vars

\* a session of the normal branch has printed two records under the name the
\* device answered with
C17_Witness ==
    \E i \in Ids :
        /\ ~sessions[i].pairing
        /\ sessions[i].deviceName = <<76, 105, 118>>
        /\ Len(RecordsOf(i)) = 2

-----------------------------------------------------------------------------
\* C18: every reset code saved to a pairing file and every reset code written
\* to the reset-code characteristic is four bytes long, whatever the device
\* answered to the read of the characteristic.
C18_CredentialIsFourBytes ==
    /\ \A k \in DOMAIN writes : Len(writes[k][2]) = ResetCodeLen
    /\ \A i \in Ids :
          "resetWrite" \in Ops(sessions[i]) =>
              Len(sessions[i].resetCode) = ResetCodeLen

-----------------------------------------------------------------------------
\* session s has ended in a failure of its own
Failed(s) == s.pc \in {"rejected", "threw", "noPairingInfo"}

\* session i saves the reset code in this step
Saves(i) ==
    /\ i \in Ids
    /\ sessions[i].pairing
    /\ sessions[i].pc = "resetRead"
    /\ Ops(sessions'[i]) \ Ops(sessions[i]) = {"storeSave", "resetWrite"}
    /\ writes' = Append(writes, <<sessions[i].address, sessions'[i].resetCode>>)

\* C19 as stated: a --scan run, a session of the normal branch and a session
\* that has failed have saved nothing.
C19_FailingSessionSavesNothing ==
    /\ mode = "SCAN" => writes = <<>>
    /\ \A i \in Ids :
          (~sessions[i].pairing \/ Failed(sessions[i])) =>
              "storeSave" \notin Ops(sessions[i])

\* C19: the pairing files change only in the step in which a session of the
\* pairing branch saves: a --scan run and a session of the normal branch save
\* nothing, a step that is not such a save (a failure among them) leaves every
\* file as it is, a save changes at most the file of the session's address,
\* also when the session fails afterwards, and no file is ever removed.
C19_StoreChangesOnlyByPairingSave ==
    /\ [](/\ mode = "SCAN" => writes = <<>>
          /\ \A i \in Ids :
                ~sessions[i].pairing => "storeSave" \notin Ops(sessions[i]))
    /\ [][/\ (store' # store \/ writes' # writes) =>
                \E i \in 1..MaxSessions :
                    /\ Saves(i)
                    /\ \A f \in DOMAIN store :
                          f # pairingFilename(sessions[i].address) =>
                              store'[f] = store[f]
          /\ \A f \in DOMAIN store :
                /\ f \in DOMAIN store'
                /\ store[f].kind = "file" => store'[f].kind = "file"]_vars

\* a pairing session saved over the file of its address and failed afterwards:
\* the file holds its reset code and the file of the other device is as it was
C19_Witness ==
    \E i \in Ids :
        /\ sessions[i].pairing
        /\ sessions[i].pc = "rejected"
        /\ "storeSave" \in Ops(sessions[i])
        /\ readPairingInfo(store, sessions[i].address) = Some(sessions[i].resetCode)
        /\ store[pairingFilename(Addr2)] = OtherFile

-----------------------------------------------------------------------------
\* the transport calls a session has behind it when it ends the process with
\* exit code 0
CompletedCalls == {"connect", "discover", "resetWrite", "dnameRead", "statsRead"}

\* C20: the process has exit code 0 only in --read mode without
\* --keep-reading, and only through a session whose connect, discovery, write
\* to the reset-code characteristic, device-name read and at least one stats
\* read have all resolved; the step that sets exit code 0 is the one in which
\* that session's stats read resolved.
C20_SuccessOnlyAfterFullSession ==
    /\ [](exit = "exit0" =>
            /\ mode = "READ"
            /\ ~keepReading
            /\ \E i \in Ids :
                  /\ sessions[i].pc = "exit0"
                  /\ CompletedCalls \subseteq Ops(sessions[i])
                  /\ sessions[i].chars = AllChars
                  /\ Len(sessions[i].stats) >= 1
                  /\ Len(sessions[i].stats) = StatsReads(sessions[i]))
    /\ [][(exit' = "exit0" /\ exit # "exit0") =>
            \E i \in Ids :
                /\ sessions[i].pc = "statsRead"
                /\ sessions'[i].pc = "exit0"
                /\ Len(sessions'[i].stats) = Len(sessions[i].stats) + 1]_vars

\* a session of the pairing branch printed a record and ended the process with
\* exit code 0
C20_Witness ==
    /\ exit = "exit0"
    /\ \E i \in Ids :
          /\ sessions[i].pairing
          /\ sessions[i].pc = "exit0"
          /\ Len(RecordsOf(i)) = 1

====
